---- MODULE Spec2Model ----
(***************************************************************************)
(* Knowledge-card designer: the retry executor (withRetry), the two        *)
(* generation calls (analyzeDocument, generateCardHTML) and the workflow   *)
(* controller of the App component (handleAnalyze, handleGenerateCard,     *)
(* handleNext, handleReset) together with the buttons that invoke them.    *)
(*                                                                         *)
(* Strings the code inspects (the input text, the serialized error, the    *)
(* raw model response) are sequences of one-character strings.  Values the *)
(* code only passes along (prompt wording, colours, fonts, points) are     *)
(* left out of the records.                                                *)
(***************************************************************************)
EXTENDS Integers, Sequences, FiniteSets, TLC

VARIABLES inputText, selectedStyle, workflow, blueprint, currentCard, error,
          isDownloading, exporting, pending, lastEvent

vars == <<inputText, selectedStyle, workflow, blueprint, currentCard, error,
          isDownloading, exporting, pending, lastEvent>>

\* the React state of the controller (everything but the requests in flight)
appState == <<inputText, selectedStyle, workflow, blueprint, currentCard, error>>

\* the image export: the downloading flag and the invocation of
\* downloadAsImage that is suspended at an await (null when there is none)
exportVars == <<isDownloading, exporting>>

(***************************************************************************)
(* Bounds                                                                  *)
(***************************************************************************)
\* longest input text typed into the textarea
MaxTextLen == 1
\* how many of the STYLES the user chooses among
MaxStyles == 2
\* most card outlines a returned blueprint carries
MaxOutlines == 2
\* most generation requests in flight at once
MaxPending == 2
\* largest retry budget handed to withRetry when it is checked on its own
MaxRetries == 3

(***************************************************************************)
(* Program constants                                                       *)
(***************************************************************************)
\* default parameters of withRetry
DefaultRetries == 3
DefaultDelay == 3000
\* the HTTP status the executor looks for
RateLimitStatus == 429

\* the absent value of blueprint, currentCard and error (null)
Null == [null |-> TRUE]

\* ids of STYLES, in order
STYLES == <<"Auto", "Academic", "Modern", "Tech", "Handwritten", "Business">>
StyleIds == {STYLES[i] : i \in 1..(IF MaxStyles < Len(STYLES) THEN MaxStyles ELSE Len(STYLES))}

WorkflowStates == {"IDLE", "ANALYZING", "BLUEPRINT_READY", "GENERATING_CARD",
                   "CARD_READY", "ERROR"}

(***************************************************************************)
(* String helpers                                                          *)
(***************************************************************************)
Whitespace == {" ", "\n"}

RECURSIVE TrimStart(_)
TrimStart(s) ==
  IF s # <<>> /\ Head(s) \in Whitespace THEN TrimStart(Tail(s)) ELSE s

RECURSIVE TrimEnd(_)
TrimEnd(s) ==
  IF s # <<>> /\ s[Len(s)] \in Whitespace
  THEN TrimEnd(SubSeq(s, 1, Len(s) - 1)) ELSE s

\* String.prototype.trim
Trim(s) == TrimEnd(TrimStart(s))

\* String.prototype.includes
Includes(s, sub) ==
  \E i \in 1..(Len(s) - Len(sub) + 1) : SubSeq(s, i, i + Len(sub) - 1) = sub

\* String.prototype.indexOf, 0 when sub does not occur (positions are 1-based)
IndexOf(s, sub) ==
  IF Includes(s, sub)
  THEN CHOOSE i \in 1..(Len(s) - Len(sub) + 1) :
         /\ SubSeq(s, i, i + Len(sub) - 1) = sub
         /\ \A j \in 1..(i - 1) : SubSeq(s, j, j + Len(sub) - 1) # sub
  ELSE 0

LowerChar(c) ==
  CASE c = "Q" -> "q" [] c = "U" -> "u" [] c = "O" -> "o"
    [] c = "T" -> "t" [] c = "A" -> "a" [] OTHER -> c

\* String.prototype.toLowerCase
ToLowerCase(s) == [i \in 1..Len(s) |-> LowerChar(s[i])]

\* !inputText.trim()
BlankUntrimmed(text) == text = <<>>
Blank(text) == Trim(text) = <<>>

(***************************************************************************)
(* Failures raised by a generation call.  json is JSON.stringify(error):   *)
(* only own enumerable properties are serialized, so an Error whose status *)
(* or code is not enumerable serializes to {}.  status and code are the    *)
(* fields read by error?.status and error?.code (0 when undefined).        *)
(***************************************************************************)
\* {}  (TypeError, SyntaxError of JSON.parse, network fault)
ErrPlain == [name |-> "plain", json |-> <<"{", "}">>, status |-> 0, code |-> 0]
\* {"status":429}
ErrStatus429 ==
  [name |-> "status429",
   json |-> <<"{", "\"", "s", "t", "a", "t", "u", "s", "\"", ":", "4", "2", "9", "}">>,
   status |-> 429, code |-> 0]
\* {"m":"QUOTA"}
ErrQuota ==
  [name |-> "quota",
   json |-> <<"{", "\"", "m", "\"", ":", "\"", "Q", "U", "O", "T", "A", "\"", "}">>,
   status |-> 0, code |-> 0]
\* {} with a non-enumerable code of 429
ErrHiddenCode == [name |-> "hiddenCode", json |-> <<"{", "}">>, status |-> 0, code |-> 429]

Errors == {ErrPlain, ErrStatus429, ErrQuota, ErrHiddenCode}

\* the executor's classification of a caught error
IsRateLimit(err) ==
  LET errorStr == ToLowerCase(err.json)
  IN  \/ Includes(errorStr, <<"4", "2", "9">>)
      \/ Includes(errorStr, <<"q", "u", "o", "t", "a">>)
      \/ err.status = RateLimitStatus
      \/ err.code = RateLimitStatus

\* the two user-facing messages of formatErrorMessage
QuotaMessage == [message |-> "quota-exceeded"]
GenericMessage == [message |-> "generic-failure"]

formatErrorMessage(err) ==
  LET errStr == ToLowerCase(err.json)
  IN  IF Includes(errStr, <<"4", "2", "9">>) \/ Includes(errStr, <<"q", "u", "o", "t", "a">>)
      THEN QuotaMessage
      ELSE GenericMessage

(***************************************************************************)
(* withRetry.  A call record is one outermost withRetry(fn, retries,       *)
(* delay) and its recursive continuations:                                 *)
(*   pc       "fn" while an invocation of fn is awaited, "sleep" while the *)
(*            setTimeout of the backoff is awaited, "resolved"/"rejected"  *)
(*            once the promise handed to the caller has settled            *)
(*   retries, delay   the parameters of the innermost active call          *)
(*   retries0, delay0 the parameters of the outermost call                 *)
(*   calls    invocations of fn so far                                     *)
(*   waits    the delays waited so far, in order                           *)
(*   result   the value or failure delivered to the caller                 *)
(***************************************************************************)
NoResult == [none |-> TRUE]

\* try { return await fn(); : fn is invoked at once
withRetry(retries, delay) ==
  [pc |-> "fn", retries |-> retries, delay |-> delay,
   retries0 |-> retries, delay0 |-> delay,
   calls |-> 1, waits |-> <<>>, result |-> NoResult]

\* return await fn() when fn fulfils with value
RetryReturn(c, value) == [c EXCEPT !.pc = "resolved", !.result = value]

\* a test that ignores the budget
ShouldRetryPastBudget(c, err) == IsRateLimit(err)
\* a test that ignores the class of the error
ShouldRetryAnyError(c, err) == c.retries > 0
\* if (retries > 0 && isRateLimit)
ShouldRetry(c, err) == c.retries > 0 /\ IsRateLimit(err)

\* the catch block when fn rejects with err
RetryCatchOtherError(c, err) ==
  IF ShouldRetry(c, err)
  THEN [c EXCEPT !.pc = "sleep"]
  ELSE [c EXCEPT !.pc = "rejected", !.result = ErrPlain]
RetryCatch(c, err) ==
  IF ShouldRetry(c, err)
  THEN [c EXCEPT !.pc = "sleep"]
  ELSE [c EXCEPT !.pc = "rejected", !.result = err]

\* the timer fires: return withRetry(fn, retries - 1, delay * 2), fn invoked again
RetryResumeLinear(c) ==
  [c EXCEPT !.pc = "fn", !.retries = @ - 1, !.delay = @ + c.delay0,
            !.calls = @ + 1, !.waits = Append(@, c.delay)]
RetryResume(c) ==
  [c EXCEPT !.pc = "fn", !.retries = @ - 1, !.delay = @ * 2,
            !.calls = @ + 1, !.waits = Append(@, c.delay)]

(***************************************************************************)
(* Blueprints and responses of the generation capability                   *)
(***************************************************************************)
\* card titles: the i-th title a document can yield
Titles == 1..MaxOutlines

\* CardOutline (points are only copied into the prompt)
Outline(t) == [title |-> t]

SeqsUpTo(S, n) == UNION {[1..k -> S] : k \in 0..n}

\* the outline lists a response can carry: any selection of the titles, in
\* order (the schema sets no minimum length for cardOutlines)
OutlineLists ==
  {s \in SeqsUpTo(Titles, MaxOutlines) : \A i, j \in 1..Len(s) : i < j => s[i] < s[j]}

\* DesignBlueprint
Blueprints == {[cardOutlines |-> [i \in 1..Len(s) |-> Outline(s[i])]] : s \in OutlineLists}

\* a structured response whose text JSON.parse rejects
Unparsable == [unparsable |-> TRUE]

AnalysisPayloads == Blueprints \cup {Unparsable}

\* the backquote character of a code fence (written as an apostrophe: a
\* backquote cannot appear in a string of this language)
Tick == "'"

\* the code fence, and the fence labelled html
Fence == <<Tick, Tick, Tick>>
HtmlFence == Fence \o <<"h", "t", "m", "l">>

\* raw text of a response to the render request: markup in a fence labelled
\* html, with text before it
RawFenced == <<"x", "\n">> \o HtmlFence \o <<"\n", "y", "\n">> \o Fence
\* the responses of the render request (response.text)
RawResponses == [text : {RawFenced}]

\* s.split(sep)[0]: the text before the first sep, all of s when there is none
SplitFirst(s, sep) ==
  IF Includes(s, sep) THEN SubSeq(s, 1, IndexOf(s, sep) - 1) ELSE s

\* the text after the first sep (sep occurs in s)
AfterFirst(s, sep) == SubSeq(s, IndexOf(s, sep) + Len(sep), Len(s))

\* s.split(sep)[1] when sep occurs in s
SplitSecond(s, sep) == SplitFirst(AfterFirst(s, sep), sep)

\* an extraction that keeps the white space around the inner text
ExtractHtmlUntrimmed(text) ==
  IF Includes(text, HtmlFence)
  THEN SplitFirst(SplitSecond(text, HtmlFence), Fence)
  ELSE IF Includes(text, Fence)
  THEN SplitFirst(SplitSecond(text, Fence), Fence)
  ELSE Trim(text)

\* the output extraction of generateCardHTML
ExtractHtml(text) ==
  LET html == IF Includes(text, HtmlFence)
              THEN SplitFirst(SplitSecond(text, HtmlFence), Fence)
              ELSE IF Includes(text, Fence)
              THEN SplitFirst(SplitSecond(text, Fence), Fence)
              ELSE text
  IN  Trim(html)

\* how one invocation of fn ends: the capability rejects with err, or
\* answers with a payload
Outcomes(kind) ==
  [type : {"error"}, err : Errors]
    \cup [type : {"response"},
          payload : IF kind = "analyze" THEN AnalysisPayloads ELSE RawResponses]

Fulfilled(value) == [ok |-> TRUE, value |-> value]
Rejected(err) == [ok |-> FALSE, err |-> err]

\* the operation analyzeDocument hands to withRetry
AnalyzeFn(outcome) ==
  IF outcome.type = "error" THEN Rejected(outcome.err)
  ELSE IF outcome.payload = Unparsable THEN Rejected(ErrPlain)
  ELSE Fulfilled(outcome.payload)

ValidIndex(bp, index) == index >= 0 /\ index < Len(bp.cardOutlines)

\* the operation generateCardHTML hands to withRetry: card.title throws a
\* TypeError before any request when cardOutlines[cardIndex] is undefined
RenderFn(bp, cardIndex, outcome) ==
  IF ~ValidIndex(bp, cardIndex) THEN Rejected(ErrPlain)
  ELSE IF outcome.type = "error" THEN Rejected(outcome.err)
  ELSE Fulfilled(ExtractHtml(outcome.payload.text))

(***************************************************************************)
(* Requests in flight: pending is the sequence of handler invocations that *)
(* are suspended at their await, oldest first.  A render request keeps the *)
(* blueprint and index its handler closed over.                            *)
(***************************************************************************)
\* analyzeDocument(inputText, selectedStyle)
analyzeDocument ==
  [kind |-> "analyze", blueprint |-> Null, index |-> 0,
   call |-> withRetry(DefaultRetries, DefaultDelay)]

\* generateCardHTML(blueprint, cardIndex)
generateCardHTML(bp, cardIndex) ==
  [kind |-> "render", blueprint |-> bp, index |-> cardIndex,
   call |-> withRetry(DefaultRetries, DefaultDelay)]

RemoveAt(s, i) == SubSeq(s, 1, i - 1) \o SubSeq(s, i + 1, Len(s))

\* input texts of the textarea
Chars == {" ", "a"}
Texts == SeqsUpTo(Chars, MaxTextLen)

TypeOK ==
  /\ inputText \in Texts
  /\ selectedStyle \in StyleIds
  /\ workflow \in WorkflowStates
  /\ blueprint \in Blueprints \cup {Null}
  /\ error \in {Null, QuotaMessage, GenericMessage}
  /\ Len(pending) <= MaxPending

(***************************************************************************)
(* Initial state: the useState defaults                                    *)
(***************************************************************************)
Init ==
  /\ isDownloading = FALSE
  /\ exporting = Null
  /\ inputText = <<>>
  /\ selectedStyle = "Auto"
  /\ workflow = "IDLE"
  /\ blueprint = Null
  /\ currentCard = Null
  /\ error = Null
  /\ pending = <<>>
  /\ lastEvent = [type |-> "init"]

(***************************************************************************)
(* What is rendered                                                        *)
(***************************************************************************)
\* the style buttons, the textarea and the analyze button
FormShown == workflow = "IDLE" \/ workflow = "ANALYZING"
\* disabled={workflow === 'ANALYZING' || !inputText.trim()}
AnalyzeDisabled == workflow = "ANALYZING" \/ Blank(inputText)
\* the outline list
OutlinesShown == ~FormShown /\ blueprint # Null
\* disabled={workflow === 'GENERATING_CARD'}
OutlineDisabled == workflow = "GENERATING_CARD"
\* the card view of <main>, with the copy, download and next buttons
CardShown == workflow # "IDLE" /\ workflow # "GENERATING_CARD" /\ currentCard # Null
\* the start-generation button of <main>
StartShown ==
  /\ workflow # "IDLE" /\ workflow # "GENERATING_CARD"
  /\ currentCard = Null /\ blueprint # Null
\* blueprint?.cardOutlines.length || 0
OutlineCount == IF blueprint = Null THEN 0 ELSE Len(blueprint.cardOutlines)
\* disabled={currentCard.index === (blueprint?.cardOutlines.length || 0) - 1}
NextDisabled == currentCard.index = OutlineCount - 1
\* the reset button of the header
ResetShown == workflow # "IDLE"

(***************************************************************************)
(* Handlers, up to their await                                             *)
(***************************************************************************)
handleAnalyze ==
  IF Blank(inputText)
  THEN UNCHANGED <<appState, pending>>
  ELSE /\ workflow' = "ANALYZING"
       /\ error' = Null
       /\ pending' = Append(pending, analyzeDocument)
       /\ UNCHANGED <<inputText, selectedStyle, blueprint, currentCard>>

handleGenerateCard(index) ==
  IF blueprint = Null
  THEN UNCHANGED <<appState, pending>>
  ELSE /\ workflow' = "GENERATING_CARD"
       /\ error' = Null
       /\ pending' = Append(pending, generateCardHTML(blueprint, index))
       /\ UNCHANGED <<inputText, selectedStyle, blueprint, currentCard>>

\* a handleNext that requests the current card again
handleNextSameCard ==
  IF /\ blueprint # Null
     /\ currentCard # Null
     /\ currentCard.index < Len(blueprint.cardOutlines) - 1
  THEN handleGenerateCard(currentCard.index)
  ELSE UNCHANGED <<appState, pending>>

handleNext ==
  IF /\ blueprint # Null
     /\ currentCard # Null
     /\ currentCard.index < Len(blueprint.cardOutlines) - 1
  THEN handleGenerateCard(currentCard.index + 1)
  ELSE UNCHANGED <<appState, pending>>

\* handleReset without setCurrentCard(null)
handleResetKeepsCard ==
  /\ workflow' = "IDLE"
  /\ blueprint' = Null
  /\ inputText' = <<>>
  /\ selectedStyle' = "Auto"
  /\ error' = Null
  /\ UNCHANGED <<currentCard, pending>>
handleReset ==
  /\ workflow' = "IDLE"
  /\ blueprint' = Null
  /\ currentCard' = Null
  /\ inputText' = <<>>
  /\ selectedStyle' = "Auto"
  /\ error' = Null
  /\ UNCHANGED pending

(***************************************************************************)
(* Handlers, after their await                                             *)
(***************************************************************************)
\* a continuation of handleAnalyze whose catch leaves the workflow as it is
handleAnalyzeSettledStaysBusy(c) ==
  IF c.pc = "resolved"
  THEN /\ blueprint' = c.result
       /\ workflow' = "BLUEPRINT_READY"
       /\ UNCHANGED <<inputText, selectedStyle, currentCard, error>>
  ELSE /\ error' = formatErrorMessage(c.result)
       /\ UNCHANGED <<inputText, selectedStyle, workflow, blueprint, currentCard>>

\* handleAnalyze once analyzeDocument has settled as call record c
handleAnalyzeSettled(c) ==
  IF c.pc = "resolved"
  THEN /\ blueprint' = c.result
       /\ workflow' = "BLUEPRINT_READY"
       /\ UNCHANGED <<inputText, selectedStyle, currentCard, error>>
  ELSE /\ error' = formatErrorMessage(c.result)
       /\ workflow' = "IDLE"
       /\ UNCHANGED <<inputText, selectedStyle, blueprint, currentCard>>

\* handleGenerateCard once generateCardHTML has settled as call record c;
\* r.blueprint and r.index are the values the handler closed over
handleGenerateCardSettled(r, c) ==
  IF c.pc = "resolved"
  THEN /\ currentCard' = [index |-> r.index, html |-> c.result,
                          title |-> r.blueprint.cardOutlines[r.index + 1].title]
       /\ workflow' = "CARD_READY"
       /\ UNCHANGED <<inputText, selectedStyle, blueprint, error>>
  ELSE /\ error' = formatErrorMessage(c.result)
       /\ workflow' = "BLUEPRINT_READY"
       /\ UNCHANGED <<inputText, selectedStyle, blueprint, currentCard>>

(***************************************************************************)
(* User events.  A click on a disabled button invokes no handler.          *)
(***************************************************************************)
\* onChange of the textarea
SetInputText(text) ==
  /\ FormShown
  /\ inputText' = text
  /\ lastEvent' = [type |-> "input"]
  /\ UNCHANGED <<selectedStyle, workflow, blueprint, currentCard, error, pending>>
  /\ UNCHANGED exportVars

\* onClick of a style button
SetSelectedStyle(id) ==
  /\ FormShown
  /\ selectedStyle' = id
  /\ lastEvent' = [type |-> "style"]
  /\ UNCHANGED <<inputText, workflow, blueprint, currentCard, error, pending>>
  /\ UNCHANGED exportVars

ClickAnalyze ==
  /\ FormShown
  /\ Len(pending) < MaxPending
  /\ IF AnalyzeDisabled THEN UNCHANGED <<appState, pending>> ELSE handleAnalyze
  /\ lastEvent' = [type |-> "analyze", issued |-> pending' # pending]
  /\ UNCHANGED exportVars

ClickOutline(idx) ==
  /\ OutlinesShown
  /\ ValidIndex(blueprint, idx)
  /\ Len(pending) < MaxPending
  /\ IF OutlineDisabled THEN UNCHANGED <<appState, pending>> ELSE handleGenerateCard(idx)
  /\ lastEvent' = [type |-> "outline", issued |-> pending' # pending]
  /\ UNCHANGED exportVars

ClickStart ==
  /\ StartShown
  /\ Len(pending) < MaxPending
  /\ handleGenerateCard(0)
  /\ lastEvent' = [type |-> "start", issued |-> pending' # pending]
  /\ UNCHANGED exportVars

\* the next button wired straight to handleGenerateCard, like an outline button
ClickNextUnguarded ==
  /\ CardShown
  /\ Len(pending) < MaxPending
  /\ handleGenerateCard(currentCard.index + 1)
  /\ lastEvent' = [type |-> "next", issued |-> pending' # pending]
  /\ UNCHANGED exportVars
ClickNext ==
  /\ CardShown
  /\ Len(pending) < MaxPending
  /\ IF NextDisabled THEN UNCHANGED <<appState, pending>> ELSE handleNext
  /\ lastEvent' = [type |-> "next", issued |-> pending' # pending]
  /\ UNCHANGED exportVars

ClickReset ==
  /\ ResetShown
  /\ handleReset
  /\ lastEvent' = [type |-> "reset"]
  /\ UNCHANGED exportVars

(***************************************************************************)
(* Steps of a request in flight                                            *)
(***************************************************************************)
\* what the i-th pending invocation of fn yields for an outcome
FnResult(r, outcome) ==
  IF r.kind = "analyze" THEN AnalyzeFn(outcome)
  ELSE RenderFn(r.blueprint, r.index, outcome)

\* withRetry after the awaited fn() has settled as res
RetryStep(c, res) ==
  IF res.ok THEN RetryReturn(c, res.value) ELSE RetryCatch(c, res.err)

\* response.text of a render request that got as far as its response, the
\* empty text for every other invocation (history)
ResponseText(r, outcome) ==
  IF r.kind = "render" /\ FnResult(r, outcome).ok THEN outcome.payload.text
  ELSE <<>>

\* the awaited invocation of fn of the i-th request settles as outcome; when
\* that settles withRetry, the handler resumes in the same turn of the event
\* loop
Settle(i, outcome) ==
  /\ i \in 1..Len(pending)
  /\ pending[i].call.pc = "fn"
  /\ LET r == pending[i]
         res == FnResult(r, outcome)
         c == RetryStep(r.call, res)
     IN  /\ IF c.pc = "sleep"
            THEN /\ pending' = [pending EXCEPT ![i].call = c]
                 /\ UNCHANGED appState
            ELSE /\ pending' = RemoveAt(pending, i)
                 /\ IF r.kind = "analyze"
                    THEN handleAnalyzeSettled(c)
                    ELSE handleGenerateCardSettled(r, c)
         /\ lastEvent' = [type |-> "attempt", kind |-> r.kind, call |-> c,
                          res |-> res, text |-> ResponseText(r, outcome)]
  /\ UNCHANGED exportVars

\* the awaited invocation of fn of the i-th request settles
FnSettles(i, outcome) ==
  /\ i \in 1..Len(pending)
  /\ outcome \in Outcomes(pending[i].kind)
  /\ Settle(i, outcome)

\* the backoff timer of the i-th request fires
TimerFires(i) ==
  /\ i \in 1..Len(pending)
  /\ pending[i].call.pc = "sleep"
  /\ pending' = [pending EXCEPT ![i].call = RetryResume(@)]
  /\ lastEvent' = [type |-> "timer"]
  /\ UNCHANGED appState
  /\ UNCHANGED exportVars

AllOutcomes == Outcomes("analyze") \cup Outcomes("render")

Next ==
  \/ \E text \in Texts : SetInputText(text)
  \/ \E id \in StyleIds : SetSelectedStyle(id)
  \/ ClickAnalyze
  \/ \E idx \in 0..(MaxOutlines - 1) : ClickOutline(idx)
  \/ ClickStart
  \/ ClickNext
  \/ ClickReset
  \/ \E i \in 1..MaxPending, outcome \in AllOutcomes : FnSettles(i, outcome)
  \/ \E i \in 1..MaxPending : TimerFires(i)

Spec == Init /\ [][Next]_vars

(***************************************************************************)
(* The controller under fair scheduling: every generation call that is     *)
(* awaited settles and every backoff timer that is set fires.  The inputs  *)
(* are one text, the outline lists of no and of MaxOutlines outlines, and  *)
(* one error of each class of withRetry.                                   *)
(***************************************************************************)
FairOutcomes(kind) ==
  [type : {"error"}, err : {ErrPlain, ErrStatus429}]
    \cup [type : {"response"},
          payload : IF kind = "analyze"
                    THEN {bp \in Blueprints :
                            Len(bp.cardOutlines) \in {0, MaxOutlines}}
                           \cup {Unparsable}
                    ELSE RawResponses]

\* a step of a request in flight
FairStep ==
  \/ \E i \in 1..MaxPending :
       \E outcome \in FairOutcomes("analyze") \cup FairOutcomes("render") :
         /\ i <= Len(pending)
         /\ outcome \in FairOutcomes(pending[i].kind)
         /\ Settle(i, outcome)
  \/ \E i \in 1..MaxPending : TimerFires(i)

FairNext ==
  \/ SetInputText(<<"a">>)
  \/ ClickAnalyze
  \/ \E idx \in 0..(MaxOutlines - 1) : ClickOutline(idx)
  \/ ClickStart
  \/ ClickNext
  \/ ClickReset
  \/ FairStep

FairSpec == Init /\ [][FairNext]_vars /\ WF_vars(FairStep)

(***************************************************************************)
(* withRetry on its own: one request whose retry budget and initial delay  *)
(* are arbitrary, followed until the promise settles                       *)
(***************************************************************************)
Delays == {1, 5, DefaultDelay}

RetryInit ==
  /\ isDownloading = FALSE
  /\ exporting = Null
  /\ inputText = <<"a">>
  /\ selectedStyle = "Auto"
  /\ workflow = "ANALYZING"
  /\ blueprint = Null
  /\ currentCard = Null
  /\ error = Null
  /\ \E retries \in 0..MaxRetries, delay \in Delays :
       pending = <<[analyzeDocument EXCEPT !.call = withRetry(retries, delay)]>>
  /\ lastEvent = [type |-> "analyze", issued |-> TRUE]

RetryNext ==
  \/ \E outcome \in Outcomes("analyze") : FnSettles(1, outcome)
  \/ TimerFires(1)

RetrySpec == RetryInit /\ [][RetryNext]_vars

(***************************************************************************)
(* generateCardHTML on its own: one render request, answered by a response *)
(* whose text is built from a prefix, a fenced or unfenced body and a      *)
(* suffix                                                                  *)
(***************************************************************************)
\* text before the opening fence
FencePrefixes == {<<>>, <<"x", "\n">>}
\* opening fences: none, generic, labelled html
FenceOpenings == {<<>>, Fence, HtmlFence}
\* the document text, with and without white space around and inside it
FenceBodies == {<<"y">>, <<"\n", "y", "\n">>, <<" ", "y", " ", "z", "\n">>}
\* text after the closing fence: none, a remark, a second fenced block
FenceSuffixes == {<<>>, <<"\n", "w">>, <<"\n">> \o Fence \o <<"v">> \o Fence}

\* response.text
FenceTexts ==
  {pre \o open \o body \o (IF open = <<>> THEN <<>> ELSE Fence \o post) :
     pre \in FencePrefixes, open \in FenceOpenings, body \in FenceBodies,
     post \in FenceSuffixes}

FenceOutcomes == [type : {"response"}, payload : [text : FenceTexts]]

FenceInit ==
  /\ isDownloading = FALSE
  /\ exporting = Null
  /\ inputText = <<"a">>
  /\ selectedStyle = "Auto"
  /\ workflow = "GENERATING_CARD"
  /\ currentCard = Null
  /\ error = Null
  /\ \E bp \in Blueprints, index \in 0..(MaxOutlines - 1) :
       /\ ValidIndex(bp, index)
       /\ blueprint = bp
       /\ pending = <<generateCardHTML(bp, index)>>
  /\ lastEvent = [type |-> "outline", issued |-> TRUE]

FenceNext == \E outcome \in FenceOutcomes : Settle(1, outcome)

FenceSpec == FenceInit /\ [][FenceNext]_vars

(***************************************************************************)
(* Image export: downloadAsImage.  It reads the preview iframe, waits for  *)
(* the fonts, rasterizes the card container with the filter below and      *)
(* starts a download.  It writes isDownloading only; the alert it shows    *)
(* and the download it starts are recorded in lastEvent.                   *)
(***************************************************************************)
\* iframeRef.current.contentDocument || contentWindow?.document: a document,
\* null, or a SecurityError on reading it
DocumentReads == {"document", "null", "throws"}
\* iframeDoc.querySelector('.card-container') || iframeDoc.body
ContainerReads == {"element", "null"}
\* document.fonts?.ready: a promise, absent, or a fault on reading it
FontsReads == {"promise", "absent", "throws"}

ExportEnvs ==
  [document : DocumentReads, container : ContainerReads, fonts : FontsReads]

\* what the catch of downloadAsImage can receive.  security tells whether
\* the fault is a security fault of the browser; the code cannot read it.
\* new Error("...iframe...")
ErrNoDocument ==
  [name |-> "Error", hasMessage |-> TRUE, message |-> <<"no-document">>,
   security |-> FALSE]
\* new Error("...container...")
ErrNoContainer ==
  [name |-> "Error", hasMessage |-> TRUE, message |-> <<"no-container">>,
   security |-> FALSE]
\* a DOMException named SecurityError
ErrSecurity ==
  [name |-> "SecurityError", hasMessage |-> TRUE, message |-> <<"blocked">>,
   security |-> TRUE]
\* an Error that reports a SecurityError in its message
ErrWrappedSecurity ==
  [name |-> "Error", hasMessage |-> TRUE,
   message |-> <<"failed:", "SecurityError", "blocked">>, security |-> TRUE]
\* an Error of the rasterizer
ErrRaster ==
  [name |-> "Error", hasMessage |-> TRUE, message |-> <<"raster">>,
   security |-> FALSE]
\* an error event of an image that failed to load: no name, no message
ErrEvent ==
  [name |-> "undefined", hasMessage |-> FALSE, message |-> <<>>,
   security |-> FALSE]

\* how htmlToImage.toPng settles
ToPngOutcomes ==
  [type : {"dataUrl"}]
    \cup [type : {"error"},
          err : {ErrSecurity, ErrWrappedSecurity, ErrRaster, ErrEvent}]

\* a node the rasterizer hands to the filter: its tag, and what reading
\* node.sheet and sheet.cssRules yields
Nodes ==
  [tagName : {"LINK", "STYLE", "DIV"}, sheet : {"none", "readable", "throws"}]

\* a filter that also drops the link nodes without a sheet
filterDropsSheetless(node) ==
  IF node.tagName = "LINK" THEN node.sheet = "readable" ELSE TRUE

\* the filter passed to toPng
filter(node) ==
  IF node.tagName = "LINK"
  THEN IF node.sheet = "throws" THEN FALSE
       ELSE TRUE
  ELSE TRUE

SecurityAlert == [alert |-> "security"]
GenericAlert == [alert |-> "generic"]

\* the alert of a catch that looks at the name only
ExportAlertByName(err) ==
  IF err.name = "SecurityError" THEN SecurityAlert ELSE GenericAlert

\* the alert the catch of downloadAsImage shows
ExportAlert(err) ==
  IF \/ err.name = "SecurityError"
     \/ err.hasMessage /\ Includes(err.message, <<"SecurityError">>)
  THEN SecurityAlert
  ELSE GenericAlert

\* downloadAsImage ends in phase: the download when err is null, the catch
\* otherwise; then the finally.  The file is named after the title of the
\* card the invocation closed over.
ExportEnds(phase, err, card, filtered) ==
  /\ isDownloading' = FALSE
  /\ exporting' = Null
  /\ lastEvent' =
       [type |-> "export", phase |-> phase, ended |-> TRUE, fault |-> err,
        alert |-> IF err = Null THEN Null ELSE ExportAlert(err),
        download |-> IF err = Null THEN [title |-> card.title] ELSE Null,
        filtered |-> filtered]

\* downloadAsImage up to its first await
downloadAsImage(env) ==
  IF ~CardShown
  THEN /\ UNCHANGED exportVars
       /\ lastEvent' = [type |-> "export", phase |-> "click", ended |-> FALSE]
  ELSE IF env.document = "throws"
  THEN ExportEnds("click", ErrSecurity, currentCard, Null)
  ELSE IF env.document = "null"
  THEN ExportEnds("click", ErrNoDocument, currentCard, Null)
  ELSE IF env.container = "null"
  THEN ExportEnds("click", ErrNoContainer, currentCard, Null)
  ELSE /\ isDownloading' = TRUE
       /\ exporting' = [pc |-> IF env.fonts = "promise" THEN "fonts" ELSE "toPng",
                        card |-> currentCard]
       /\ lastEvent' = [type |-> "export", phase |-> "click", ended |-> FALSE]

\* the download button of the card view; it is disabled while isDownloading
ClickDownload(env) ==
  /\ CardShown
  /\ IF isDownloading
     THEN /\ UNCHANGED exportVars
          /\ lastEvent' = [type |-> "export", phase |-> "click", ended |-> FALSE]
     ELSE downloadAsImage(env)
  /\ UNCHANGED <<appState, pending>>

\* the awaited document.fonts.ready settles
FontsSettle ==
  /\ exporting # Null
  /\ exporting.pc = "fonts"
  /\ exporting' = [exporting EXCEPT !.pc = "toPng"]
  /\ lastEvent' = [type |-> "export", phase |-> "fonts", ended |-> FALSE]
  /\ UNCHANGED <<appState, pending, isDownloading>>

\* the awaited toPng settles, having handed node to the filter
ToPngSettles(outcome, node) ==
  /\ exporting # Null
  /\ exporting.pc = "toPng"
  /\ ExportEnds("toPng",
                IF outcome.type = "error" THEN outcome.err ELSE Null,
                exporting.card,
                [node |-> node, kept |-> filter(node)])
  /\ UNCHANGED <<appState, pending>>

\* the card view right after a render resolved
ExportInit ==
  /\ inputText = <<"a">>
  /\ selectedStyle = "Auto"
  /\ workflow = "CARD_READY"
  /\ error = Null
  /\ isDownloading = FALSE
  /\ exporting = Null
  /\ pending = <<>>
  /\ \E bp \in Blueprints, index \in 0..(MaxOutlines - 1) :
       /\ ValidIndex(bp, index)
       /\ blueprint = bp
       /\ currentCard = [index |-> index, html |-> ExtractHtml(RawFenced),
                         title |-> bp.cardOutlines[index + 1].title]
  /\ lastEvent =
       [type |-> "attempt", kind |-> "render",
        call |-> RetryReturn(withRetry(DefaultRetries, DefaultDelay),
                             ExtractHtml(RawFenced)),
        res |-> Fulfilled(ExtractHtml(RawFenced)), text |-> RawFenced]

ExportNext ==
  \/ \E env \in ExportEnvs : ClickDownload(env)
  \/ FontsSettle
  \/ \E outcome \in ToPngOutcomes, node \in Nodes : ToPngSettles(outcome, node)
  \/ ClickNext
  \/ ClickReset
  \/ \E outcome \in Outcomes("render") : FnSettles(1, outcome)
  \/ TimerFires(1)

ExportSpec == ExportInit /\ [][ExportNext]_vars

(***************************************************************************)
(* Properties of the retry executor (checked under RetrySpec)              *)
(***************************************************************************)
\* an invocation of fn has just settled and settled withRetry with it
JustSettled ==
  /\ lastEvent.type = "attempt"
  /\ lastEvent.call.pc \in {"resolved", "rejected"}

\* C1: when the first invocation of the operation fails with an error that is
\* not rate-limit-related, withRetry rejects at once: the operation has been
\* invoked exactly once, no delay has been waited, and nothing is left to run.
C1_NonRateLimitInvokedOnce ==
  ( /\ lastEvent.type = "attempt"
    /\ lastEvent.call.calls = 1
    /\ ~lastEvent.res.ok
    /\ ~IsRateLimit(lastEvent.res.err) )
  => /\ lastEvent.call.pc = "rejected"
     /\ lastEvent.call.waits = <<>>
     /\ pending = <<>>

\* a first invocation failed with a non-rate-limit error while retries remained
C1_Witness ==
  /\ lastEvent.type = "attempt"
  /\ lastEvent.call.calls = 1
  /\ lastEvent.call.retries0 > 0
  /\ ~lastEvent.res.ok
  /\ ~IsRateLimit(lastEvent.res.err)
  /\ lastEvent.call.pc = "rejected"

\* the i-th backoff of a call that started with delay d
Backoff(d, i) == d * 2 ^ (i - 1)

\* C2: when every attempt fails with a rate-limit error (withRetry ends by
\* rejecting with one), fn has been invoked exactly retries + 1 times and the
\* waits were exactly delay, delay*2, delay*4, ...: retries of them.
C2_ExhaustedBudget ==
  ( /\ JustSettled
    /\ lastEvent.call.pc = "rejected"
    /\ IsRateLimit(lastEvent.call.result) )
  => /\ lastEvent.call.calls = lastEvent.call.retries0 + 1
     /\ lastEvent.call.waits =
          [i \in 1..lastEvent.call.retries0 |-> Backoff(lastEvent.call.delay0, i)]

\* a budget of three retries was used up by rate-limit failures
C2_Witness ==
  /\ JustSettled
  /\ lastEvent.call.pc = "rejected"
  /\ IsRateLimit(lastEvent.call.result)
  /\ lastEvent.call.retries0 = 3
  /\ Len(lastEvent.call.waits) = 3

\* C3: whenever withRetry gives up, the failure it delivers to its caller is
\* the failure the last invocation of the operation raised.
C3_FailureUnchanged ==
  (JustSettled /\ lastEvent.call.pc = "rejected")
  => /\ ~lastEvent.res.ok
     /\ lastEvent.call.result = lastEvent.res.err

\* withRetry gave up after a retry, on a failure that is not the plain error
C3_Witness ==
  /\ JustSettled
  /\ lastEvent.call.pc = "rejected"
  /\ lastEvent.call.calls > 1
  /\ lastEvent.call.result = ErrQuota

(***************************************************************************)
(* Properties of the workflow controller (checked under Spec)              *)
(***************************************************************************)
Busy == workflow = "ANALYZING" \/ workflow = "GENERATING_CARD"

\* the step is a click on the analyze, outline, start or next button
GenerationClick == lastEvent'.type \in {"analyze", "outline", "start", "next"}

\* the step settles withRetry of a pending request, so that its handler resumes
Resolution ==
  /\ lastEvent'.type = "attempt"
  /\ lastEvent'.call.pc \in {"resolved", "rejected"}

\* C4: in every reachable state at most one analysis or render request is in
\* flight.
C4_AtMostOneInFlight == Len(pending) <= 1

\* C5: while the workflow is ANALYZING or GENERATING_CARD, an attempt to start
\* an analysis, to render a card or to go to the next card issues no request
\* and changes no controller state.
C5_BusyRejects ==
  [][(Busy /\ GenerationClick) => UNCHANGED <<appState, pending>>]_vars

\* C6: when a request that was pending at a reset resolves (here: as the first
\* event after the reset), its result is discarded: no controller state changes.
C6_StaleResultDiscarded ==
  [][(lastEvent.type = "reset" /\ pending # <<>> /\ Resolution)
       => UNCHANGED appState]_vars

WhitespaceOnly(text) == \A i \in 1..Len(text) : text[i] \in Whitespace

\* C7: from IDLE, invoking analysis with empty or whitespace-only text changes
\* no controller state and issues no request; with any other text it moves the
\* workflow to ANALYZING and issues exactly one analysis operation.
C7_AnalyzeFromIdle ==
  [][(workflow = "IDLE" /\ lastEvent'.type = "analyze")
       => IF WhitespaceOnly(inputText)
          THEN UNCHANGED <<appState, pending>>
          ELSE /\ workflow' = "ANALYZING"
               /\ Len(pending') = Len(pending) + 1
               /\ SubSeq(pending', 1, Len(pending)) = pending
               /\ pending'[Len(pending')].kind = "analyze"
               /\ pending'[Len(pending')].call.calls = 1]_vars

\* analysis was invoked from IDLE on a text of whitespace only, to no effect
C7_Witness ==
  /\ lastEvent = [type |-> "analyze", issued |-> FALSE]
  /\ workflow = "IDLE"
  /\ inputText # <<>>
  /\ WhitespaceOnly(inputText)

\* C8: with a blueprint of N outlines and a current card of index N-1, "next"
\* issues no render request and changes no controller state.
C8_NextAtLastIsNoOp ==
  [][( /\ blueprint # Null
       /\ currentCard # Null
       /\ currentCard.index = Len(blueprint.cardOutlines) - 1
       /\ lastEvent'.type = "next" )
       => UNCHANGED <<appState, pending>>]_vars

\* "next" was invoked on the last card of a blueprint of two outlines
C8_Witness ==
  /\ lastEvent = [type |-> "next", issued |-> FALSE]
  /\ workflow = "CARD_READY"
  /\ blueprint # Null
  /\ currentCard # Null
  /\ Len(blueprint.cardOutlines) = 2
  /\ currentCard.index = 1

\* C9: when an analysis fails k times with a rate-limit error and then
\* succeeds, the underlying call has been invoked k+1 times and the workflow is
\* BLUEPRINT_READY with the returned blueprint stored and no error message.
C9_RetriedAnalysisSucceeds ==
  ( /\ JustSettled
    /\ lastEvent.kind = "analyze"
    /\ lastEvent.call.pc = "resolved" )
  => /\ lastEvent.call.calls = Len(lastEvent.call.waits) + 1
     /\ workflow = "BLUEPRINT_READY"
     /\ blueprint = lastEvent.call.result
     /\ error = Null

\* C10: when a blueprint generation fails, the workflow goes from ANALYZING to
\* IDLE with an error message stored and the blueprint absent.
C10_AnalysisFailure ==
  [][(Resolution /\ lastEvent'.kind = "analyze" /\ lastEvent'.call.pc = "rejected")
       => /\ workflow = "ANALYZING"
          /\ workflow' = "IDLE"
          /\ error' # Null
          /\ blueprint' = Null]_vars

\* C11: when a card render fails, the workflow goes from GENERATING_CARD to
\* BLUEPRINT_READY with an error message stored, the blueprint retained and
\* the current card as it was.
C11_RenderFailure ==
  [][(Resolution /\ lastEvent'.kind = "render" /\ lastEvent'.call.pc = "rejected")
       => /\ workflow = "GENERATING_CARD"
          /\ workflow' = "BLUEPRINT_READY"
          /\ error' # Null
          /\ blueprint # Null
          /\ blueprint' = blueprint
          /\ currentCard' = currentCard]_vars

\* C12: reset moves the workflow to IDLE, clears the blueprint, the current
\* card, the input text and the error message, and selects the style Auto.
C12_ResetClears ==
  [][(lastEvent'.type = "reset")
       => /\ workflow' = "IDLE"
          /\ blueprint' = Null
          /\ currentCard' = Null
          /\ inputText' = <<>>
          /\ error' = Null
          /\ selectedStyle' = STYLES[1]]_vars

\* reset has just run while a request was in flight
C12_Witness ==
  /\ lastEvent.type = "reset"
  /\ pending # <<>>
  /\ workflow = "IDLE"

\* C16: the workflow is never ERROR, and an error message is present only
\* while the workflow is IDLE or BLUEPRINT_READY.
C16_NoErrorState ==
  /\ workflow \in WorkflowStates \ {"ERROR"}
  /\ error # Null => workflow \in {"IDLE", "BLUEPRINT_READY"}

\* C18: the message shown agrees with the executor's classification: a failure
\* it treated as rate-limit surfaces after the budget is used up, with the
\* quota message; any other failure surfaces with the generic message.
C18_MessageAgrees ==
  (JustSettled /\ lastEvent.call.pc = "rejected")
  => IF IsRateLimit(lastEvent.call.result)
     THEN /\ lastEvent.call.calls = lastEvent.call.retries0 + 1
          /\ error = QuotaMessage
     ELSE error = GenericMessage

\* C19: when a render for index i succeeds, the workflow goes from
\* GENERATING_CARD to CARD_READY, the current card becomes the card of index i
\* with the extracted html and the title of outline i of the blueprint the
\* render was issued with, and the blueprint is unchanged.
C19_RenderSuccess ==
  [][(Resolution /\ lastEvent'.kind = "render" /\ lastEvent'.call.pc = "resolved")
       => /\ workflow = "GENERATING_CARD"
          /\ workflow' = "CARD_READY"
          /\ blueprint' = blueprint
          /\ \E i \in 1..Len(pending) :
               /\ pending' = RemoveAt(pending, i)
               /\ currentCard' =
                    [index |-> pending[i].index,
                     html |-> lastEvent'.call.result,
                     title |-> pending[i].blueprint.cardOutlines[pending[i].index + 1].title]]_vars

\* C20: every render request in flight carries an index within
\* [0, cardOutlines.length) of the blueprint passed with it.
C20_RenderIndexValid ==
  \A i \in 1..Len(pending) :
    pending[i].kind = "render" =>
      /\ pending[i].index >= 0
      /\ pending[i].index < Len(pending[i].blueprint.cardOutlines)

(***************************************************************************)
(* Output extraction of the card renderer                                  *)
(***************************************************************************)
\* sub occurs in s at position k
OccursAt(s, sub, k) ==
  k + Len(sub) - 1 <= Len(s) /\ SubSeq(s, k, k + Len(sub) - 1) = sub

\* the opening fence of s: the labelled fence when s has one, the generic
\* fence otherwise
OpeningFence(s) ==
  IF \E k \in 1..Len(s) : OccursAt(s, HtmlFence, k) THEN HtmlFence ELSE Fence

\* s has its first opening fence at i and the closing fence that matches it
\* (the next fence after it) at j
FencedAt(s, i, j) ==
  LET open == OpeningFence(s)
  IN  /\ OccursAt(s, open, i)
      /\ \A k \in 1..(i - 1) : ~OccursAt(s, open, k)
      /\ j >= i + Len(open)
      /\ OccursAt(s, Fence, j)
      /\ \A k \in (i + Len(open))..(j - 1) : ~OccursAt(s, Fence, k)

\* the text between the fences at i and j
Between(s, i, j) == SubSeq(s, i + Len(OpeningFence(s)), j - 1)

RenderAnswered ==
  lastEvent.type = "attempt" /\ lastEvent.kind = "render" /\ lastEvent.res.ok

\* C13: the result of a render invocation whose response holds a fenced
\* block (labelled html, or generic) is the text between the opening fence
\* and the closing fence that matches it, trimmed; the result for a response
\* without a fence is the response text, trimmed
C13_FenceExtraction ==
  RenderAnswered =>
    LET t == lastEvent.text
        html == lastEvent.res.value
    IN  /\ \A i, j \in 1..Len(t) :
             FencedAt(t, i, j) => html = Trim(Between(t, i, j))
        /\ (\A k \in 1..Len(t) : ~OccursAt(t, Fence, k)) => html = Trim(t)
        /\ currentCard # Null /\ currentCard.html = html

\* a response with text before a generic fence, white space around the inner
\* text and a second block after it has been reduced to the inner text
C13_Witness ==
  /\ RenderAnswered
  /\ lastEvent.text = <<"x", "\n">> \o Fence \o <<" ", "y", " ", "z", "\n">>
                        \o Fence \o <<"\n">> \o Fence \o <<"v">> \o Fence
  /\ lastEvent.res.value = <<"y", " ", "z">>
  /\ currentCard # Null /\ currentCard.html = <<"y", " ", "z">>
  /\ workflow = "CARD_READY"

(***************************************************************************)
(* Image export                                                            *)
(***************************************************************************)
\* C14: the export filter returns false for a node exactly when the node is
\* a link node whose rule list cannot be read; it returns true for every
\* other node (not a link, a link with a readable rule list, a link with no
\* sheet)
C14_FilterDropsUnreadableLinks ==
  (lastEvent.type = "export" /\ lastEvent.phase = "toPng")
  => LET node == lastEvent.filtered.node
     IN  (lastEvent.filtered.kept = FALSE)
           <=> (node.tagName = "LINK" /\ node.sheet = "throws")

\* a link whose rule list cannot be read has been filtered out
C14_Witness ==
  /\ lastEvent.type = "export"
  /\ lastEvent.phase = "toPng"
  /\ lastEvent.filtered = [node |-> [tagName |-> "LINK", sheet |-> "throws"],
                           kept |-> FALSE]

\* an invocation of downloadAsImage has just ended
ExportEnded == lastEvent.type = "export" /\ lastEvent.ended

\* C15: no step of an export changes the workflow, the blueprint, the
\* current card or the error message; an export that ends, ends with the
\* downloading flag cleared; when it failed it has shown the security
\* message if the failure is a security fault and the generic message if it
\* is not, and when it succeeded it has shown none
C15_ExportFailureContained ==
  [][(lastEvent'.type = "export")
     => /\ appState' = appState
        /\ lastEvent'.ended
             => /\ isDownloading' = FALSE
                /\ IF lastEvent'.fault = Null
                   THEN lastEvent'.alert = Null /\ lastEvent'.download # Null
                   ELSE /\ lastEvent'.download = Null
                        /\ lastEvent'.alert =
                             IF lastEvent'.fault.security
                             THEN SecurityAlert ELSE GenericAlert]_vars

\* a rasterization that failed with an error reporting a SecurityError in
\* its message only has ended with the security message, after the card
\* view it started from was reset
C15_Witness ==
  /\ ExportEnded
  /\ lastEvent.phase = "toPng"
  /\ lastEvent.fault = ErrWrappedSecurity
  /\ lastEvent.alert = SecurityAlert
  /\ isDownloading = FALSE
  /\ workflow = "IDLE"

(***************************************************************************)
(* Progress                                                                *)
(***************************************************************************)
\* C17: when every awaited generation call settles and every backoff timer
\* fires, a workflow that is ANALYZING or GENERATING_CARD is eventually in a
\* stable state again; the settlement of an analysis, failed or not, puts
\* the workflow in IDLE or BLUEPRINT_READY and the settlement of a render in
\* CARD_READY or BLUEPRINT_READY
C17_BusyEventuallyStable ==
  /\ [][Resolution
        => IF lastEvent'.kind = "analyze"
           THEN workflow' \in {"IDLE", "BLUEPRINT_READY"}
           ELSE workflow' \in {"CARD_READY", "BLUEPRINT_READY"}]_vars
  /\ Busy ~> ~Busy

\* an analysis that was retried until its budget was spent has failed for
\* good and the workflow is back in IDLE with nothing in flight
C17_Witness ==
  /\ JustSettled
  /\ lastEvent.kind = "analyze"
  /\ lastEvent.call.pc = "rejected"
  /\ lastEvent.call.calls = DefaultRetries + 1
  /\ workflow = "IDLE"
  /\ pending = <<>>

(***************************************************************************)
(* Held data                                                               *)
(***************************************************************************)
\* C21: every blueprint the controller holds has at least one outline: a
\* response whose outline list is empty is never stored as the blueprint
C21_BlueprintHasOutlines ==
  blueprint # Null => Len(blueprint.cardOutlines) > 0

(***************************************************************************)
(* Next card                                                               *)
(***************************************************************************)
\* the step settles a render request with success
RenderResolved ==
  /\ Resolution
  /\ lastEvent'.kind = "render"
  /\ lastEvent'.call.pc = "resolved"

\* C22: in CARD_READY with a current card of index i below the last outline
\* index, "next" sets GENERATING_CARD and issues exactly one render request,
\* for index i+1 of the blueprint; a render request that succeeds makes the
\* index it was issued for the index of the current card
C22_NextRendersSuccessor ==
  [][/\ ( /\ lastEvent'.type = "next"
          /\ workflow = "CARD_READY"
          /\ blueprint # Null
          /\ currentCard # Null
          /\ currentCard.index < Len(blueprint.cardOutlines) - 1 )
        => /\ workflow' = "GENERATING_CARD"
           /\ pending' = Append(pending,
                                generateCardHTML(blueprint, currentCard.index + 1))
           /\ blueprint' = blueprint
     /\ RenderResolved
        => \E i \in 1..Len(pending) :
             /\ pending' = RemoveAt(pending, i)
             /\ pending[i].kind = "render"
             /\ currentCard' # Null
             /\ currentCard'.index = pending[i].index]_vars

\* "next" on the first card of two has issued the render of the second
C22_Witness ==
  /\ lastEvent.type = "next"
  /\ lastEvent.issued
  /\ workflow = "GENERATING_CARD"
  /\ currentCard # Null
  /\ currentCard.index = 0
  /\ pending = <<generateCardHTML(blueprint, 1)>>

(***************************************************************************)
(* Termination of withRetry                                                *)
(***************************************************************************)
\* C23: withRetry invokes the operation at most retries + 1 times.  An
\* attempt that succeeds ends it with that attempt's value, and an attempt
\* that fails with an error that is not rate-limit-related ends it with
\* that error, whatever the attempts before and however many retries
\* remain; once ended, nothing is left to run.
C23_RetryTerminates ==
  /\ \A i \in 1..Len(pending) : pending[i].call.calls <= pending[i].call.retries0 + 1
  /\ lastEvent.type = "attempt"
     => LET c == lastEvent.call
        IN  /\ c.calls <= c.retries0 + 1
            /\ c.calls + c.retries = c.retries0 + 1
            /\ lastEvent.res.ok => c.pc = "resolved" /\ c.result = lastEvent.res.value
            /\ (~lastEvent.res.ok /\ ~IsRateLimit(lastEvent.res.err))
                 => c.pc = "rejected" /\ c.result = lastEvent.res.err
            /\ c.pc \in {"resolved", "rejected"} => pending = <<>>
            /\ c.pc = "sleep" => c.retries > 0 /\ pending # <<>>

\* after two rate-limit failures, with one retry left, the third attempt
\* failed with a plain error and withRetry ended there
C23_Witness ==
  /\ lastEvent.type = "attempt"
  /\ lastEvent.call.pc = "rejected"
  /\ lastEvent.call.retries0 = 3
  /\ lastEvent.call.calls = 3
  /\ lastEvent.call.retries = 1
  /\ Len(lastEvent.call.waits) = 2
  /\ ~lastEvent.res.ok
  /\ lastEvent.res.err = ErrPlain
  /\ pending = <<>>

(***************************************************************************)
(* Agreement of the workflow with the held data                            *)
(***************************************************************************)
\* C24: whenever the workflow is CARD_READY, the blueprint and the current
\* card are present, the index of the card is a valid index into the
\* blueprint, and the title of the card is the title of that outline
C24_CardMatchesBlueprint ==
  workflow = "CARD_READY"
  => /\ blueprint # Null
     /\ currentCard # Null
     /\ ValidIndex(blueprint, currentCard.index)
     /\ currentCard.title = blueprint.cardOutlines[currentCard.index + 1].title

\* C25: when the workflow is IDLE or ANALYZING, no blueprint and no card
\* are held; when it is BLUEPRINT_READY, GENERATING_CARD or CARD_READY, a
\* blueprint is held
C25_WorkflowAgreesWithData ==
  /\ workflow \in {"IDLE", "ANALYZING"} => blueprint = Null /\ currentCard = Null
  /\ workflow \in {"BLUEPRINT_READY", "GENERATING_CARD", "CARD_READY"}
     => blueprint # Null

\* C26: no state that is ANALYZING, GENERATING_CARD or CARD_READY carries an
\* error message; an analysis that succeeds enters BLUEPRINT_READY without
\* one; a click that issues a request clears it; a message appears only with
\* a failed analysis that ends in IDLE or a failed render that ends in
\* BLUEPRINT_READY
C26_ErrorOnlyAfterFailure ==
  [][/\ workflow' \in {"ANALYZING", "GENERATING_CARD", "CARD_READY"}
        => error' = Null
     /\ (Resolution /\ lastEvent'.kind = "analyze" /\ lastEvent'.call.pc = "resolved")
        => error' = Null
     /\ (GenerationClick /\ lastEvent'.issued) => error' = Null
     /\ (error' # Null /\ error' # error)
        => /\ Resolution
           /\ lastEvent'.call.pc = "rejected"
           /\ workflow' = IF lastEvent'.kind = "analyze"
                          THEN "IDLE" ELSE "BLUEPRINT_READY"]_vars
====
